---- MODULE Spec2Model ----
(***************************************************************************)
(* Dependency resolution engine of ai-instructions                         *)
(* (internal/resolver/resolver.go: Resolve, ResolveRemoval) and the        *)
(* content hashing and verification of stack directories                   *)
(* (internal/filemanager: HashDir, VerifyStack), and the commands of the   *)
(* CLI that use them (internal/cli: init, add, remove, sync, verify).      *)
(*                                                                         *)
(* Stack ids are strings in the program.  They are modelled as the         *)
(* naturals 1..NumIds, the numeric order standing for the byte-wise order  *)
(* sort.Strings uses.  NoId stands for the empty string, the zero value a  *)
(* Go map[string]string returns for an absent key; stack ids themselves    *)
(* are never empty (filemanager.validatePathComponent rejects them).       *)
(*                                                                         *)
(* Go maps are modelled as TLA+ functions whose DOMAIN is the key set.     *)
(* Ranging over a Go map visits the keys in an unspecified order: every    *)
(* such loop is modelled by a choice among all permutations of the keys.   *)
(***************************************************************************)
EXTENDS Integers, Sequences, FiniteSets, TLC

\* ---------------------------------------------------------------- bounds
NumIds == 3        \* distinct stack ids that can occur anywhere
MaxSize == 4       \* entries of the explicit list plus all Depends entries,
                   \* one of them kept for the explicit list

NumPaths == 2      \* distinct file names a stack directory can hold
MaxBytes == 3      \* bytes of all files of a directory together

NumStacks == 2     \* distinct stack ids the registry of a project can hold

NoId == 0

Ids == 1..NumIds

VARIABLES
    stacks,        \* Resolver.stacks: id -> Depends
    explicit,      \* argument of Resolve
    pc,            \* position inside Resolve
    needed,        \* map[string]bool, as the set of its keys
    explicitSet,   \* map[string]bool, as the set of its keys
    dependencyOf,  \* map[string]string
    queue,         \* BFS queue
    inDegree,      \* map[string]int
    adj,           \* map[string][]string, dep -> dependents
    queue2,        \* ready queue of Kahn's algorithm
    order,         \* emitted ids
    result,        \* what Resolve returned
    calls,         \* Resolve calls started so far
    prev,          \* what the previous call returned
    currentExplicit, \* argument of ResolveRemoval
    removing,      \* argument of ResolveRemoval
    orphans,       \* what ResolveRemoval returned
    rpc,           \* position inside ResolveRemoval
    disk,          \* the files of a stack directory: path -> bytes
    unreadable,    \* the files of the directory that cannot be opened
    info,          \* StackVerifyInfo recorded for the directory
    h,             \* bytes written to the SHA-256 state by HashDir
    digest,        \* what HashDir returned
    prevDigest,    \* what the previous HashDir call returned
    vresult,       \* what VerifyStack returned
    fpc,           \* position of the code working on the directory
    reg,           \* registry.Registry.Stacks: id -> version and Depends
    config,        \* config.Config of the project: Stacks and Resolved
    dirs,          \* the managed directory: stack id -> files of its directory
    blocks,        \* the target files that hold the managed block
    last,          \* the command that ran last, its exit code, and for verify
                   \* whether it compared versions with the registry
    vs,            \* the VerifyStack calls in progress: stack id -> locals
    results        \* what filemanager.VerifyAll returned

resolveVars == <<stacks, explicit, pc, needed, explicitSet, dependencyOf, queue,
                 inDegree, adj, queue2, order, result, calls, prev>>

removalVars == <<currentExplicit, removing, orphans, rpc>>

fileVars == <<disk, unreadable, info, h, digest, prevDigest, vresult, fpc>>

cliVars == <<reg, config, dirs, blocks, last, vs, results>>

vars == <<resolveVars, removalVars, fileVars, cliVars>>

\* ------------------------------------------------------------- utilities
Range(s) == {s[i] : i \in DOMAIN s}

EmptyMap == <<>>

\* m[k] of a Go map with zero value z
MapGet(m, k, z) == IF k \in DOMAIN m THEN m[k] ELSE z

\* m[k] = v
MapPut(m, k, v) == [x \in (DOMAIN m) \cup {k} |-> IF x = k THEN v ELSE m[x]]

\* the orders in which `for k := range m` can visit the key set S
RECURSIVE MapIter(_)
MapIter(S) ==
    IF S = {} THEN {<<>>}
    ELSE UNION {{<<x>> \o p : p \in MapIter(S \ {x})} : x \in S}

\* r.stacks[id].Depends; a missing key yields the zero StackInfo
Depends(id) == MapGet(stacks, id, <<>>)

RECURSIVE Insert(_, _)
Insert(x, s) ==
    IF s = <<>> THEN <<x>>
    ELSE IF x <= Head(s) THEN <<x>> \o s
    ELSE <<Head(s)>> \o Insert(x, Tail(s))

\* faulty variant of SortStrings: the slice is left in its append order
SortStringsUnsorted(s) == s

\* sort.Strings
RECURSIVE SortStrings(_)
SortStrings(s) ==
    IF s = <<>> THEN <<>> ELSE Insert(Head(s), SortStrings(Tail(s)))

\* ---------------------------------------------------------------- inputs
\* number of Depends entries of the catalog c
RECURSIVE Entries(_, _)
Entries(c, S) ==
    IF S = {} THEN 0
    ELSE LET x == CHOOSE y \in S : TRUE IN Len(c[x]) + Entries(c, S \ {x})

\* the lists of at most n ids
Lists(n) == UNION {[1..m -> Ids] : m \in 0..n}

\* ---------------------------------------------------------------- results
NoResult ==
    [kind |-> "none", Order |-> <<>>, Explicit |-> {}, DependencyOf |-> EmptyMap,
     Stack |-> NoId, Dependency |-> NoId, Cycle |-> <<>>]

Resolution(o, e, d) ==
    [NoResult EXCEPT !.kind = "Resolution", !.Order = o, !.Explicit = e,
                     !.DependencyOf = d]

MissingStackError(s) ==
    [NoResult EXCEPT !.kind = "MissingStackError", !.Stack = s]

MissingDependencyError(s, d) ==
    [NoResult EXCEPT !.kind = "MissingDependencyError", !.Stack = s,
                     !.Dependency = d]

CircularDependencyError(c) ==
    [NoResult EXCEPT !.kind = "CircularDependencyError", !.Cycle = c]

\* ------------------------------------------------------ files and hashes
\* File names are the bytes 1..NumPaths, one byte each, the numeric order
\* standing for the byte-wise order of sort.Strings.  A byte string is a
\* sequence of bytes.  Next to the name bytes there are the line feed and one
\* symbol for the five bytes "file:", which the header of HashDir writes.
Paths == 1..NumPaths

Newline == NumPaths + 1

FilePrefix == NumPaths + 2

\* the relative path of a file inside a subdirectory of the stack directory.
\* filepath.Walk descends into the subdirectory.  No declared file is there:
\* Manager.DownloadStack creates no subdirectory, so writing such a file
\* fails and nothing is recorded for it.
SubFile == NumPaths + 4

\* the bytes a file holds: what a header is made of, with the last file name
\* as the name byte
Bytes == {NumPaths, Newline, FilePrefix}

\* the byte strings of at most n bytes
ByteStrings(n) == UNION {[1..m -> Bytes] : m \in 0..n}

\* bytes held by the files in S of the directory d
RECURSIVE Size(_, _)
Size(d, S) ==
    IF S = {} THEN 0
    ELSE LET p == CHOOSE x \in S : TRUE IN Len(d[p]) + Size(d, S \ {p})

\* a digest "sha256:%x": SHA-256 is taken to be collision-free, so the digest
\* stands for the bytes that were hashed; err marks a call that returned an
\* error and no digest
Sha256(b) == [err |-> FALSE, sum |-> b]

HashError == [err |-> TRUE, sum |-> <<>>]

NoDigest == [err |-> FALSE, sum |-> <<FilePrefix>>]

NoInfo == [Hash |-> NoDigest, Files |-> <<>>, FileHashes |-> EmptyMap]

NoVerifyResult == [OK |-> FALSE, Missing |-> <<>>, Tampered |-> <<>>]

\* no settings file in the project directory
NoConfig == [Version |-> 0, Stacks |-> <<>>, Resolved |-> EmptyMap]

\* no command has run
NoCommand == [cmd |-> "none", code |-> "none", freshness |-> FALSE]

Init ==
    /\ stacks = EmptyMap
    /\ explicit = <<>>
    /\ pc = "build"
    /\ needed = {}
    /\ explicitSet = {}
    /\ dependencyOf = EmptyMap
    /\ queue = <<>>
    /\ inDegree = EmptyMap
    /\ adj = EmptyMap
    /\ queue2 = <<>>
    /\ order = <<>>
    /\ result = NoResult
    /\ calls = 0
    /\ prev = NoResult
    /\ currentExplicit = <<>>
    /\ removing = <<>>
    /\ orphans = <<>>
    /\ rpc = "idle"
    /\ disk = EmptyMap
    /\ unreadable = {}
    /\ info = NoInfo
    /\ h = <<>>
    /\ digest = NoDigest
    /\ prevDigest = NoDigest
    /\ vresult = NoVerifyResult
    /\ fpc = "write"
    /\ reg = EmptyMap
    /\ config = NoConfig
    /\ dirs = EmptyMap
    /\ blocks = {}
    /\ last = NoCommand
    /\ vs = EmptyMap
    /\ results = <<>>

\* --------------------------------------------------------------- caller
\* cli.buildStackInfoMap, one iteration: a registry entry becomes a catalog
\* entry.  The entries are added in ascending id order; the map that results
\* does not depend on the order.
buildStackInfoMap ==
    /\ pc = "build"
    /\ \E id \in Ids :
         /\ \A k \in DOMAIN stacks : k < id
         /\ \E deps \in Lists(MaxSize - 1 - Entries(stacks, DOMAIN stacks)) :
              stacks' = MapPut(stacks, id, deps)
    /\ UNCHANGED <<explicit, pc, needed, explicitSet, dependencyOf, queue,
                   inDegree, adj, queue2, order, result, calls, prev,
                   removalVars, fileVars, cliVars>>

\* resolver.NewResolver(stackInfoMap).Resolve(stacks)
NewResolver ==
    /\ pc = "build"
    /\ explicit' \in Lists(MaxSize - Entries(stacks, DOMAIN stacks))
    /\ pc' = "validate"
    /\ calls' = 1
    /\ UNCHANGED <<stacks, needed, explicitSet, dependencyOf, queue, inDegree,
                   adj, queue2, order, result, prev,
                   removalVars, fileVars, cliVars>>

\* ------------------------------------------------- Resolve: validation
\* faulty variant of FirstMissing: the loop keeps the last unknown id
FirstMissingLast(ex) ==
    LET bad == {i \in DOMAIN ex : ex[i] \notin DOMAIN stacks}
    IN  IF bad = {} THEN NoId
        ELSE ex[CHOOSE i \in bad : \A j \in bad : j <= i]

\* faulty variant of FirstMissing: the validation loop is left out
FirstMissingNone(ex) == NoId

\* lines 66-70: the first id of ex, in list order, that is not a key of
\* r.stacks (NoId when there is none)
FirstMissing(ex) ==
    LET bad == {i \in DOMAIN ex : ex[i] \notin DOMAIN stacks}
    IN  IF bad = {} THEN NoId
        ELSE ex[CHOOSE i \in bad : \A j \in bad : i <= j]

Return(r) ==
    /\ pc' = "done"
    /\ result' = r

\* lines 66-70, an explicit id is unknown
ReturnMissingStack ==
    /\ pc = "validate"
    /\ FirstMissing(explicit) # NoId
    /\ Return(MissingStackError(FirstMissing(explicit)))
    /\ UNCHANGED <<stacks, explicit, needed, explicitSet, dependencyOf, queue,
                   inDegree, adj, queue2, order, calls, prev,
                   removalVars, fileVars, cliVars>>

\* lines 66-83, every explicit id is known
StartBFS ==
    /\ pc = "validate"
    /\ FirstMissing(explicit) = NoId
    /\ needed' = {}
    /\ explicitSet' = Range(explicit)
    /\ dependencyOf' = EmptyMap
    /\ queue' = explicit
    /\ pc' = "bfs"
    /\ UNCHANGED <<stacks, explicit, inDegree, adj, queue2, order, result,
                   calls, prev,
                   removalVars, fileVars, cliVars>>

\* ------------------------------------------------------- Resolve: BFS
\* faulty variant of ScanDepends: the dependency is not appended to the queue
RECURSIVE ScanDependsNoEnqueue(_, _, _, _, _)
ScanDependsNoEnqueue(current, deps, i, depOf, q) ==
    IF i > Len(deps) THEN [missing |-> NoId, dependencyOf |-> depOf, queue |-> q]
    ELSE LET dep == deps[i] IN
        IF dep \notin DOMAIN stacks
        THEN [missing |-> dep, dependencyOf |-> depOf, queue |-> q]
        ELSE ScanDependsNoEnqueue(current, deps, i + 1,
                 IF dep \notin explicitSet /\ MapGet(depOf, dep, NoId) = NoId
                 THEN MapPut(depOf, dep, current) ELSE depOf,
                 q)

\* faulty variant of ScanDepends: explicit stacks are attributed too
RECURSIVE ScanDependsAttributeExplicit(_, _, _, _, _)
ScanDependsAttributeExplicit(current, deps, i, depOf, q) ==
    IF i > Len(deps) THEN [missing |-> NoId, dependencyOf |-> depOf, queue |-> q]
    ELSE LET dep == deps[i] IN
        IF dep \notin DOMAIN stacks
        THEN [missing |-> dep, dependencyOf |-> depOf, queue |-> q]
        ELSE ScanDependsAttributeExplicit(current, deps, i + 1,
                 IF MapGet(depOf, dep, NoId) = NoId
                 THEN MapPut(depOf, dep, current) ELSE depOf,
                 Append(q, dep))

\* faulty variant of ScanDepends: a later requester overwrites the attribution
RECURSIVE ScanDependsLastWins(_, _, _, _, _)
ScanDependsLastWins(current, deps, i, depOf, q) ==
    IF i > Len(deps) THEN [missing |-> NoId, dependencyOf |-> depOf, queue |-> q]
    ELSE LET dep == deps[i] IN
        IF dep \notin DOMAIN stacks
        THEN [missing |-> dep, dependencyOf |-> depOf, queue |-> q]
        ELSE ScanDependsLastWins(current, deps, i + 1,
                 IF dep \notin explicitSet
                 THEN MapPut(depOf, dep, current) ELSE depOf,
                 Append(q, dep))

\* faulty variant of ScanDepends: the attribution goes to the first explicit
\* stack instead of the stack being visited
RECURSIVE ScanDependsAttributeRoot(_, _, _, _, _)
ScanDependsAttributeRoot(current, deps, i, depOf, q) ==
    IF i > Len(deps) THEN [missing |-> NoId, dependencyOf |-> depOf, queue |-> q]
    ELSE LET dep == deps[i] IN
        IF dep \notin DOMAIN stacks
        THEN [missing |-> dep, dependencyOf |-> depOf, queue |-> q]
        ELSE ScanDependsAttributeRoot(current, deps, i + 1,
                 IF dep \notin explicitSet /\ MapGet(depOf, dep, NoId) = NoId
                 THEN MapPut(depOf, dep, Head(explicit)) ELSE depOf,
                 Append(q, dep))

\* lines 98-108, the loop over info.Depends from index i on.  missing is the
\* dependency that made the loop return, NoId when it ran to its end.
RECURSIVE ScanDepends(_, _, _, _, _)
ScanDepends(current, deps, i, depOf, q) ==
    IF i > Len(deps) THEN [missing |-> NoId, dependencyOf |-> depOf, queue |-> q]
    ELSE LET dep == deps[i] IN
        IF dep \notin DOMAIN stacks
        THEN [missing |-> dep, dependencyOf |-> depOf, queue |-> q]
        ELSE ScanDepends(current, deps, i + 1,
                 IF dep \notin explicitSet /\ MapGet(depOf, dep, NoId) = NoId
                 THEN MapPut(depOf, dep, current) ELSE depOf,
                 Append(q, dep))

\* faulty variant of BFSSkip: the head already visited is not taken off the queue
BFSSkipNoPop ==
    /\ pc = "bfs"
    /\ queue # <<>>
    /\ Head(queue) \in needed
    /\ UNCHANGED vars

\* lines 85-90, the head of the queue was visited before
BFSSkip ==
    /\ pc = "bfs"
    /\ queue # <<>>
    /\ Head(queue) \in needed
    /\ queue' = Tail(queue)
    /\ UNCHANGED <<stacks, explicit, pc, needed, explicitSet, dependencyOf,
                   inDegree, adj, queue2, order, result, calls, prev,
                   removalVars, fileVars, cliVars>>

\* lines 85-108, the body of one iteration for a head not yet in needed
Visit(current) == ScanDepends(current, Depends(current), 1, dependencyOf, Tail(queue))

\* faulty variant of VisitError: Stack and Dependency are swapped
VisitErrorSwapped(current) ==
    IF current \notin DOMAIN stacks THEN MissingStackError(current)
    ELSE IF Visit(current).missing # NoId
         THEN MissingDependencyError(Visit(current).missing, current)
         ELSE NoResult

\* lines 93-102, the error one iteration returns, NoResult when it returns none
VisitError(current) ==
    IF current \notin DOMAIN stacks THEN MissingStackError(current)
    ELSE IF Visit(current).missing # NoId
         THEN MissingDependencyError(current, Visit(current).missing)
         ELSE NoResult

\* lines 85-109, one iteration that runs to the end of the Depends loop
BFSVisit ==
    /\ pc = "bfs"
    /\ queue # <<>>
    /\ Head(queue) \notin needed
    /\ VisitError(Head(queue)) = NoResult
    /\ needed' = needed \cup {Head(queue)}
    /\ dependencyOf' = Visit(Head(queue)).dependencyOf
    /\ queue' = Visit(Head(queue)).queue
    /\ UNCHANGED <<stacks, explicit, pc, explicitSet, inDegree, adj, queue2,
                   order, result, calls, prev,
                   removalVars, fileVars, cliVars>>

\* lines 85-102, one iteration that returns an error: the Depends loop meets
\* an id that is not a key of r.stacks (or, lines 93-96, the head itself is
\* not one, which the checks before every append exclude)
ReturnMissingDependency ==
    /\ pc = "bfs"
    /\ queue # <<>>
    /\ Head(queue) \notin needed
    /\ VisitError(Head(queue)) # NoResult
    /\ needed' = needed \cup {Head(queue)}
    /\ dependencyOf' = Visit(Head(queue)).dependencyOf
    /\ queue' = Visit(Head(queue)).queue
    /\ Return(VisitError(Head(queue)))
    /\ UNCHANGED <<stacks, explicit, explicitSet, inDegree, adj, queue2, order,
                   calls, prev,
                   removalVars, fileVars, cliVars>>

\* --------------------------------------------- Resolve: in-degree graph
\* faulty variant of AddEdges: the in-degree is not incremented
RECURSIVE AddEdgesNoCount(_, _, _, _)
AddEdgesNoCount(id, i, deg, ad) ==
    IF i > Len(Depends(id)) THEN [inDegree |-> deg, adj |-> ad]
    ELSE LET dep == Depends(id)[i] IN
        IF dep \in needed
        THEN AddEdgesNoCount(id, i + 1, deg,
                      MapPut(ad, dep, Append(MapGet(ad, dep, <<>>), id)))
        ELSE AddEdgesNoCount(id, i + 1, deg, ad)

\* lines 119-124, the loop over r.stacks[id].Depends from index i on
RECURSIVE AddEdges(_, _, _, _)
AddEdges(id, i, deg, ad) ==
    IF i > Len(Depends(id)) THEN [inDegree |-> deg, adj |-> ad]
    ELSE LET dep == Depends(id)[i] IN
        IF dep \in needed
        THEN AddEdges(id, i + 1, [deg EXCEPT ![id] = @ + 1],
                      MapPut(ad, dep, Append(MapGet(ad, dep, <<>>), id)))
        ELSE AddEdges(id, i + 1, deg, ad)

\* lines 115-125, the loop over needed, visited in the order ids, from k on
RECURSIVE BuildGraph(_, _, _, _)
BuildGraph(ids, k, deg, ad) ==
    IF k > Len(ids) THEN [inDegree |-> deg, adj |-> ad]
    ELSE LET id == ids[k]
             d0 == IF id \in DOMAIN deg THEN deg ELSE MapPut(deg, id, 0)
             g  == AddEdges(id, 1, d0, ad)
         IN  BuildGraph(ids, k + 1, g.inDegree, g.adj)

\* lines 128-133, the loop over inDegree, visited in the order ids
ZeroInDegree(ids, deg) == SelectSeq(ids, LAMBDA id : deg[id] = 0)

\* lines 113-134
StartKahn ==
    /\ pc = "bfs"
    /\ queue = <<>>
    /\ \E g \in {BuildGraph(ids, 1, EmptyMap, EmptyMap) : ids \in MapIter(needed)} :
         /\ inDegree' = g.inDegree
         /\ adj' = g.adj
         /\ queue2' \in {SortStrings(ZeroInDegree(ids2, g.inDegree)) :
                            ids2 \in MapIter(DOMAIN g.inDegree)}
    /\ order' = <<>>
    /\ pc' = "kahn"
    /\ UNCHANGED <<stacks, explicit, needed, explicitSet, dependencyOf, queue,
                   result, calls, prev,
                   removalVars, fileVars, cliVars>>

\* lines 144-149, the loop over adj[node] from index i on
RECURSIVE Release(_, _, _, _)
Release(dependents, i, deg, q) ==
    IF i > Len(dependents) THEN [inDegree |-> deg, queue2 |-> q]
    ELSE LET dependent == dependents[i]
             d1 == [deg EXCEPT ![dependent] = @ - 1]
         IN  Release(dependents, i + 1, d1,
                     IF d1[dependent] = 0 THEN Append(q, dependent) ELSE q)

\* faulty variant of KahnStep: the queue is sorted before the loop only
KahnStepNoSort ==
    /\ pc = "kahn"
    /\ queue2 # <<>>
    /\ LET node == Head(queue2)
           r == Release(MapGet(adj, node, <<>>), 1, inDegree, Tail(queue2))
       IN  /\ order' = Append(order, node)
           /\ inDegree' = r.inDegree
           /\ queue2' = r.queue2
    /\ UNCHANGED <<stacks, explicit, pc, needed, explicitSet, dependencyOf,
                   queue, adj, result, calls, prev,
                   removalVars, fileVars, cliVars>>

\* lines 137-150, one iteration
KahnStep ==
    /\ pc = "kahn"
    /\ queue2 # <<>>
    /\ LET sorted == SortStrings(queue2)
           node == Head(sorted)
           r == Release(MapGet(adj, node, <<>>), 1, inDegree, Tail(sorted))
       IN  /\ order' = Append(order, node)
           /\ inDegree' = r.inDegree
           /\ queue2' = r.queue2
    /\ UNCHANGED <<stacks, explicit, pc, needed, explicitSet, dependencyOf,
                   queue, adj, result, calls, prev,
                   removalVars, fileVars, cliVars>>

\* faulty variant of ReturnResolution: len(order) is not compared to len(needed)
ReturnResolutionUnchecked ==
    /\ pc = "kahn"
    /\ queue2 = <<>>
    /\ Return(Resolution(order, explicitSet, dependencyOf))
    /\ UNCHANGED <<stacks, explicit, needed, explicitSet, dependencyOf, queue,
                   inDegree, adj, queue2, order, calls, prev,
                   removalVars, fileVars, cliVars>>

\* lines 158-162
ReturnResolution ==
    /\ pc = "kahn"
    /\ queue2 = <<>>
    /\ Len(order) = Cardinality(needed)
    /\ Return(Resolution(order, explicitSet, dependencyOf))
    /\ UNCHANGED <<stacks, explicit, needed, explicitSet, dependencyOf, queue,
                   inDegree, adj, queue2, order, calls, prev,
                   removalVars, fileVars, cliVars>>

\* ---------------------------------------------------------- findCycle
\* faulty variant of CycleFrom: the whole path is copied, not path[i:]
CycleFromWholePath(path, dep) == Append(path, dep)

\* lines 225-232: the path from the first occurrence of dep on, closed by dep
CycleFrom(path, dep) ==
    LET i == CHOOSE k \in DOMAIN path :
                 path[k] = dep /\ \A j \in DOMAIN path : path[j] = dep => k <= j
    IN  Append(SubSeq(path, i, Len(path)), dep)

\* lines 214-244, the closure dfs.  visited and path are the captured
\* variables, threaded through; cycle = <<>> stands for nil.
RECURSIVE dfs(_, _, _), dfsDepends(_, _, _, _)
dfs(node, visited, path) ==
    dfsDepends(node, 1, [visited EXCEPT ![node] = 1], Append(path, node))

\* lines 219-243, the loop over info.Depends from index i on, and the return
dfsDepends(node, i, visited, path) ==
    IF i > Len(Depends(node))
    THEN [cycle |-> <<>>, visited |-> [visited EXCEPT ![node] = 2],
          path |-> SubSeq(path, 1, Len(path) - 1)]
    ELSE LET dep == Depends(node)[i] IN
        IF dep \notin needed THEN dfsDepends(node, i + 1, visited, path)
        ELSE IF visited[dep] = 1 /\ dep \in Range(path)
        THEN [cycle |-> CycleFrom(path, dep), visited |-> visited, path |-> path]
        ELSE IF visited[dep] = 0
        THEN LET r == dfs(dep, visited, path) IN
             IF r.cycle # <<>> THEN r
             ELSE dfsDepends(node, i + 1, r.visited, r.path)
        ELSE dfsDepends(node, i + 1, visited, path)

\* lines 253-260, the loop over the sorted ids from index k on
RECURSIVE dfsRoots(_, _, _, _)
dfsRoots(ids, k, visited, path) ==
    IF k > Len(ids) THEN <<>>
    ELSE IF visited[ids[k]] = 0
    THEN LET r == dfs(ids[k], visited, path) IN
         IF r.cycle # <<>> THEN r.cycle
         ELSE dfsRoots(ids, k + 1, r.visited, r.path)
    ELSE dfsRoots(ids, k + 1, visited, path)

\* lines 209-261; ids is the order in which the loop of line 248 visits needed
findCycle(ids) == dfsRoots(SortStrings(ids), 1, [id \in Ids |-> 0], <<>>)

\* lines 152-156
ReturnCircular ==
    /\ pc = "kahn"
    /\ queue2 = <<>>
    /\ Len(order) # Cardinality(needed)
    /\ \E cycle \in {findCycle(ids) : ids \in MapIter(needed)} :
         Return(CircularDependencyError(cycle))
    /\ UNCHANGED <<stacks, explicit, needed, explicitSet, dependencyOf, queue,
                   inDegree, adj, queue2, order, calls, prev,
                   removalVars, fileVars, cliVars>>

\* ------------------------------------------------------- second call
\* Resolve is called a second time on the same Resolver with the same argument
ResolveAgain ==
    /\ pc = "done"
    /\ calls = 1
    /\ calls' = calls + 1
    /\ prev' = result
    /\ pc' = "validate"
    /\ needed' = {}
    /\ explicitSet' = {}
    /\ dependencyOf' = EmptyMap
    /\ queue' = <<>>
    /\ inDegree' = EmptyMap
    /\ adj' = EmptyMap
    /\ queue2' = <<>>
    /\ order' = <<>>
    /\ result' = NoResult
    /\ UNCHANGED <<stacks, explicit,
                   removalVars, fileVars, cliVars>>

Next ==
    \/ buildStackInfoMap
    \/ NewResolver
    \/ ReturnMissingStack
    \/ StartBFS
    \/ BFSSkip
    \/ BFSVisit
    \/ ReturnMissingDependency
    \/ StartKahn
    \/ KahnStep
    \/ ReturnResolution
    \/ ReturnCircular

\* one call of Resolve
Spec == Init /\ [][Next]_vars

NextTwice ==
    \/ Next
    \/ ResolveAgain

\* two calls of Resolve with the same catalog and explicit list
SpecTwice == Init /\ [][NextTwice]_vars

\* the steps inside one call of Resolve
ResolveStep ==
    \/ ReturnMissingStack
    \/ StartBFS
    \/ BFSSkip
    \/ BFSVisit
    \/ ReturnMissingDependency
    \/ StartKahn
    \/ KahnStep
    \/ ReturnResolution
    \/ ReturnCircular

\* one call of Resolve that keeps running: Resolve is sequential code with no
\* blocking operation, so a call that can take a step takes it
SpecLive == Init /\ [][Next]_vars /\ WF_vars(ResolveStep)

\* ------------------------------------------------------- ResolveRemoval
\* lines 167-170
RemovingSet(rem) == Range(rem)

\* faulty variant of Remaining: no explicit stack is kept
RemainingNone(cur, rem) == <<>>

\* lines 173-178
Remaining(cur, rem) == SelectSeq(cur, LAMBDA id : id \notin RemovingSet(rem))

\* faulty variant of Orphans: the stacks being removed are not left out
OrphansWithRemoved(resOrder, currentOrder, rem) ==
    SelectSeq(currentOrder, LAMBDA id : id \notin Range(resOrder))

\* lines 192-202: newNeeded as the set of its keys, then the loop over
\* currentRes.Order
Orphans(resOrder, currentOrder, rem) ==
    LET newNeeded == Range(resOrder)
    IN  SelectSeq(currentOrder,
                  LAMBDA id : id \notin newNeeded /\ id \notin RemovingSet(rem))

\* faulty variant of ReturnNil: the stacks that were to stay are returned
ReturnRemaining == Remaining(currentExplicit, removing)

\* lines 182-184 and 188-190: return nil
ReturnNil == <<>>

\* the removing arguments of at most n ids for the explicit list cur.  The
\* caller (cli/remove.go) takes at least one id (line 21) and only ids of cur
\* (lines 39-50), and lines 167-170 make a set of the argument: one list
\* stands for every list with the same ids.
Removals(cur, n) ==
    {SortStrings(w) :
        w \in UNION {MapIter(S) :
                 S \in {T \in SUBSET Range(cur) : T # {} /\ Cardinality(T) <= n}}}

\* r.ResolveRemoval(currentExplicit, removing), lines 167-181: up to the call
\* r.Resolve(remaining)
CallResolveRemoval ==
    /\ pc = "build"
    /\ \E cur \in Lists(MaxSize - Entries(stacks, DOMAIN stacks)) :
       \E rem \in Removals(cur, MaxSize - Entries(stacks, DOMAIN stacks) - Len(cur)) :
         /\ currentExplicit' = cur
         /\ removing' = rem
         /\ explicit' = Remaining(cur, rem)
    /\ pc' = "validate"
    /\ calls' = 1
    /\ rpc' = "remaining"
    /\ UNCHANGED <<stacks, needed, explicitSet, dependencyOf, queue, inDegree,
                   adj, queue2, order, result, prev, orphans, fileVars, cliVars>>

\* lines 181-184: r.Resolve(remaining) returned an error
RemainingFailed ==
    /\ rpc = "remaining"
    /\ pc = "done"
    /\ result.kind # "Resolution"
    /\ orphans' = ReturnNil
    /\ rpc' = "returned"
    /\ UNCHANGED <<resolveVars, currentExplicit, removing, fileVars, cliVars>>

\* lines 181-187: r.Resolve(remaining) succeeded, r.Resolve(currentExplicit)
\* is called
ResolveCurrent ==
    /\ rpc = "remaining"
    /\ pc = "done"
    /\ result.kind = "Resolution"
    /\ prev' = result
    /\ calls' = calls + 1
    /\ explicit' = currentExplicit
    /\ pc' = "validate"
    /\ needed' = {}
    /\ explicitSet' = {}
    /\ dependencyOf' = EmptyMap
    /\ queue' = <<>>
    /\ inDegree' = EmptyMap
    /\ adj' = EmptyMap
    /\ queue2' = <<>>
    /\ order' = <<>>
    /\ result' = NoResult
    /\ rpc' = "current"
    /\ UNCHANGED <<stacks, currentExplicit, removing, orphans, fileVars, cliVars>>

\* lines 187-190: r.Resolve(currentExplicit) returned an error
CurrentFailed ==
    /\ rpc = "current"
    /\ pc = "done"
    /\ result.kind # "Resolution"
    /\ orphans' = ReturnNil
    /\ rpc' = "returned"
    /\ UNCHANGED <<resolveVars, currentExplicit, removing, fileVars, cliVars>>

\* lines 192-205: both calls succeeded
ReturnOrphans ==
    /\ rpc = "current"
    /\ pc = "done"
    /\ result.kind = "Resolution"
    /\ orphans' = SortStrings(Orphans(prev.Order, result.Order, removing))
    /\ rpc' = "returned"
    /\ UNCHANGED <<resolveVars, currentExplicit, removing, fileVars, cliVars>>

NextRemoval ==
    \/ buildStackInfoMap
    \/ CallResolveRemoval
    \/ ResolveStep
    \/ RemainingFailed
    \/ ResolveCurrent
    \/ CurrentFailed
    \/ ReturnOrphans

\* one call of ResolveRemoval
SpecRemoval == Init /\ [][NextRemoval]_vars

\* ------------------------------------------------------- HashDir
\* filemanager.HashBytes
HashBytes(data) == Sha256(data)

\* filemanager.HashFile on the file p of the directory d
HashFile(d, unr, p) ==
    IF p \notin DOMAIN d \/ p \in unr THEN HashError ELSE Sha256(d[p])

\* faulty variant of Feed: the bytes of the files are left out
RECURSIVE FeedNamesOnly(_, _, _, _, _)
FeedNamesOnly(d, unr, files, i, hh) ==
    IF i > Len(files) THEN [err |-> FALSE, h |-> hh]
    ELSE IF files[i] \in unr THEN [err |-> TRUE, h |-> hh \o <<FilePrefix, files[i], Newline>>]
    ELSE FeedNamesOnly(d, unr, files, i + 1, hh \o <<FilePrefix, files[i], Newline>>)

\* faulty variant of Feed: the header has no line feed
RECURSIVE FeedNoNewline(_, _, _, _, _)
FeedNoNewline(d, unr, files, i, hh) ==
    IF i > Len(files) THEN [err |-> FALSE, h |-> hh]
    ELSE IF files[i] \in unr THEN [err |-> TRUE, h |-> hh \o <<FilePrefix, files[i]>>]
    ELSE FeedNoNewline(d, unr, files, i + 1, hh \o <<FilePrefix, files[i]>> \o d[files[i]])

\* part_008 lines 58-67, the loop over the sorted files from index i on; hh is
\* what was written to the hash state so far
RECURSIVE Feed(_, _, _, _, _)
Feed(d, unr, files, i, hh) ==
    IF i > Len(files) THEN [err |-> FALSE, h |-> hh]
    ELSE IF files[i] \in unr THEN [err |-> TRUE, h |-> hh \o <<FilePrefix, files[i], Newline>>]
    ELSE Feed(d, unr, files, i + 1, hh \o <<FilePrefix, files[i], Newline>> \o d[files[i]])

\* faulty variant of HashDir: the files are hashed in the order Walk found them
HashDirUnsorted(d, unr, walk) ==
    LET r == Feed(d, unr, walk, 1, <<>>)
    IN  [h |-> r.h, digest |-> IF r.err THEN HashError ELSE Sha256(r.h)]

\* filemanager.HashDir on the directory d; walk is the order in which
\* filepath.Walk handed the files to the callback
HashDir(d, unr, walk) ==
    LET r == Feed(d, unr, SortStrings(walk), 1, <<>>)
    IN  [h |-> r.h, digest |-> IF r.err THEN HashError ELSE Sha256(r.h)]

\* os.WriteFile of a new file.  The files are created in ascending name order;
\* the directory that results does not depend on the order.
WriteFile ==
    /\ fpc = "write"
    /\ \E p \in Paths :
         /\ \A k \in DOMAIN disk : k < p
         /\ \E data \in ByteStrings(MaxBytes - Size(disk, DOMAIN disk)) :
              disk' = MapPut(disk, p, data)
    /\ UNCHANGED <<resolveVars, removalVars, cliVars, unreadable, info, h, digest,
                   prevDigest, vresult, fpc>>

\* HashDir(dir)
CallHashDir ==
    /\ fpc = "write"
    /\ \E r \in {HashDir(disk, unreadable, w) : w \in MapIter(DOMAIN disk)} :
         /\ h' = r.h
         /\ digest' = r.digest
    /\ fpc' = "hashed"
    /\ UNCHANGED <<resolveVars, removalVars, cliVars, disk, unreadable, info,
                   prevDigest, vresult>>

\* HashDir(dir) once more on the directory as it is
CallHashDirAgain ==
    /\ fpc = "hashed"
    /\ \E r \in {HashDir(disk, unreadable, w) : w \in MapIter(DOMAIN disk)} :
         /\ h' = r.h
         /\ digest' = r.digest
    /\ prevDigest' = digest
    /\ fpc' = "rehashed"
    /\ UNCHANGED <<resolveVars, removalVars, cliVars, disk, unreadable, info, vresult>>

NextHash ==
    \/ WriteFile
    \/ CallHashDir
    \/ CallHashDirAgain

\* a directory is filled and hashed twice
SpecHash == Init /\ [][NextHash]_vars

\* ---------------------------------------------------------- VerifyStack
\* an entry of VerifyResult.Tampered: the file it names, NoId when it names
\* none, and the text next to it
TamperedEntry(f, note) == [file |-> f, note |-> note]

\* part_009 lines 39-45, the declared files os.Stat does not find
MissingFiles(d, files) == SelectSeq(files, LAMBDA f : f \notin DOMAIN d)

\* part_009 lines 65-74, the loop over info.Files from index i on
RECURSIVE ChangedFiles(_, _, _, _)
ChangedFiles(d, unr, inf, i) ==
    IF i > Len(inf.Files) THEN <<>>
    ELSE LET f == inf.Files[i] IN
        IF f \notin DOMAIN inf.FileHashes THEN ChangedFiles(d, unr, inf, i + 1)
        ELSE IF HashFile(d, unr, f).err \/ HashFile(d, unr, f) # inf.FileHashes[f]
        THEN <<TamperedEntry(f, "")>> \o ChangedFiles(d, unr, inf, i + 1)
        ELSE ChangedFiles(d, unr, inf, i + 1)

\* part_009 lines 76-85; entries is what os.ReadDir returned, sorted by name
RECURSIVE UnexpectedFiles(_, _, _)
UnexpectedFiles(entries, inf, i) ==
    IF i > Len(entries) THEN <<>>
    ELSE IF entries[i] \notin Range(inf.Files)
    THEN <<TamperedEntry(entries[i], "(unexpected)")>> \o UnexpectedFiles(entries, inf, i + 1)
    ELSE UnexpectedFiles(entries, inf, i + 1)

\* os.ReadDir with the IsDir test of line 82: the files at the top level of
\* the directory in ascending name order.  A subdirectory is an entry of its
\* own, which line 82 skips, and the files inside it are no entries.
ReadDir(d) == SortStrings(CHOOSE w \in MapIter(DOMAIN d \cap Paths) : TRUE)

\* part_009 lines 60-90, the entries of Tampered when the directory hash
\* differs from info.Hash
Mismatch(d, unr, inf) ==
    IF DOMAIN inf.FileHashes # {}
    THEN ChangedFiles(d, unr, inf, 1) \o UnexpectedFiles(ReadDir(d), inf, 1)
    ELSE <<TamperedEntry(NoId, "(dir hash mismatch)")>>

\* faulty variant of VerifyStack: no return when files are missing
VerifyStackNoEarlyReturn(d, unr, inf, walk) ==
    LET missing == MissingFiles(d, inf.Files)
        dir == HashDir(d, unr, walk)
        tampered == IF dir.digest.err
                    THEN <<TamperedEntry(NoId, "(hash computation failed)")>>
                    ELSE IF dir.digest # inf.Hash THEN Mismatch(d, unr, inf)
                    ELSE <<>>
    IN  [result |-> [OK |-> missing = <<>> /\ tampered = <<>>,
                     Missing |-> missing, Tampered |-> tampered],
         hashed |-> TRUE, h |-> dir.h, digest |-> dir.digest]

\* faulty variant of VerifyStack: only the declared files are hashed
VerifyStackDeclaredOnly(d, unr, inf, walk) ==
    LET missing == MissingFiles(d, inf.Files)
        declared == [p \in DOMAIN d \cap Range(inf.Files) |-> d[p]]
        dir == HashDir(declared, unr, SelectSeq(walk, LAMBDA p : p \in DOMAIN declared))
    IN  IF missing # <<>>
        THEN [result |-> [OK |-> FALSE, Missing |-> missing, Tampered |-> <<>>],
              hashed |-> FALSE, h |-> <<>>, digest |-> NoDigest]
        ELSE IF dir.digest.err
        THEN [result |-> [OK |-> FALSE, Missing |-> <<>>,
                          Tampered |-> <<TamperedEntry(NoId, "(hash computation failed)")>>],
              hashed |-> TRUE, h |-> dir.h, digest |-> dir.digest]
        ELSE IF dir.digest # inf.Hash
        THEN [result |-> [OK |-> FALSE, Missing |-> <<>>,
                          Tampered |-> Mismatch(d, unr, inf)],
              hashed |-> TRUE, h |-> dir.h, digest |-> dir.digest]
        ELSE [result |-> [OK |-> TRUE, Missing |-> <<>>, Tampered |-> <<>>],
              hashed |-> TRUE, h |-> dir.h, digest |-> dir.digest]

\* filemanager.VerifyStack on the directory d; walk is the order in which
\* filepath.Walk hands the files to HashDir.  hashed tells whether HashDir
\* was called, h and digest what it was fed and what it returned.
VerifyStack(d, unr, inf, walk) ==
    LET missing == MissingFiles(d, inf.Files)
        dir == HashDir(d, unr, walk)
    IN  IF missing # <<>>
        THEN [result |-> [OK |-> FALSE, Missing |-> missing, Tampered |-> <<>>],
              hashed |-> FALSE, h |-> <<>>, digest |-> NoDigest]
        ELSE IF dir.digest.err
        THEN [result |-> [OK |-> FALSE, Missing |-> <<>>,
                          Tampered |-> <<TamperedEntry(NoId, "(hash computation failed)")>>],
              hashed |-> TRUE, h |-> dir.h, digest |-> dir.digest]
        ELSE IF dir.digest # inf.Hash
        THEN [result |-> [OK |-> FALSE, Missing |-> <<>>,
                          Tampered |-> Mismatch(d, unr, inf)],
              hashed |-> TRUE, h |-> dir.h, digest |-> dir.digest]
        ELSE [result |-> [OK |-> TRUE, Missing |-> <<>>, Tampered |-> <<>>],
              hashed |-> TRUE, h |-> dir.h, digest |-> dir.digest]

\* filemanager.HashFilesInStack for the declared files that are on disk
HashFilesInStack(d, files) ==
    [f \in Range(files) \cap DOMAIN d |-> HashFile(d, {}, f)]

\* the bytes a downloaded or overwritten file holds: none or one line feed
FileVersions == {<<>>, <<Newline>>}

\* an expected hash that is the digest of no directory ("sha256:whatever")
Whatever == Sha256(<<Newline>>)

\* the lists of at most NumPaths file names
FileLists == UNION {[1..m -> Paths] : m \in 0..NumPaths}

\* Manager.DownloadStack, one iteration: a file is written into the stack
\* directory.  The files are written in ascending name order; the directory
\* that results does not depend on the order.
DownloadFile ==
    /\ fpc = "write"
    /\ \E p \in Paths :
         /\ \A k \in DOMAIN disk : k < p
         /\ \E data \in FileVersions : disk' = MapPut(disk, p, data)
    /\ UNCHANGED <<resolveVars, removalVars, cliVars, unreadable, info, h, digest,
                   prevDigest, vresult, fpc>>

\* the StackVerifyInfo that VerifyStack will be given: the declared files, the
\* directory hash computed after the download or a hash that matches nothing,
\* and the per-file hashes or, for a configuration without them, none
Record ==
    /\ fpc = "write"
    /\ \E files \in FileLists :
       \E hash \in {HashDir(disk, {}, w).digest : w \in MapIter(DOMAIN disk)}
                      \cup {Whatever} :
       \E fileHashes \in {EmptyMap, HashFilesInStack(disk, files)} :
         info' = [Hash |-> hash, Files |-> files, FileHashes |-> fileHashes]
    /\ fpc' = "recorded"
    /\ UNCHANGED <<resolveVars, removalVars, cliVars, disk, unreadable, h, digest,
                   prevDigest, vresult>>

\* a file of the directory is created or overwritten after the recording
TamperWrite ==
    /\ fpc = "recorded"
    /\ \E p \in Paths : \E data \in FileVersions :
         /\ MapGet(disk, p, <<FilePrefix>>) # data
         /\ disk' = MapPut(disk, p, data)
    /\ UNCHANGED <<resolveVars, removalVars, cliVars, unreadable, info, h, digest,
                   prevDigest, vresult, fpc>>

\* a subdirectory with one empty file in it is created in the stack
\* directory after the recording
TamperMkdir ==
    /\ fpc = "recorded"
    /\ SubFile \notin DOMAIN disk
    /\ disk' = MapPut(disk, SubFile, <<>>)
    /\ UNCHANGED <<resolveVars, removalVars, cliVars, unreadable, info, h, digest,
                   prevDigest, vresult, fpc>>

\* a file of the directory is deleted after the recording
TamperRemove ==
    /\ fpc = "recorded"
    /\ \E p \in DOMAIN disk :
         /\ disk' = [q \in DOMAIN disk \ {p} |-> disk[q]]
         /\ unreadable' = unreadable \ {p}
    /\ UNCHANGED <<resolveVars, removalVars, cliVars, info, h, digest, prevDigest,
                   vresult, fpc>>

\* a file at the top level of the directory loses its read permission after
\* the recording; one such file is enough to make HashDir fail
TamperChmod ==
    /\ fpc = "recorded"
    /\ unreadable = {}
    /\ \E p \in DOMAIN disk \cap Paths : unreadable' = unreadable \cup {p}
    /\ UNCHANGED <<resolveVars, removalVars, cliVars, disk, info, h, digest, prevDigest,
                   vresult, fpc>>

\* faulty variant of CallVerifyStack: the files the scan finds undeclared are
\* deleted from the stack directory
CallVerifyStackCleaning ==
    /\ fpc = "recorded"
    /\ \E r \in {VerifyStack(disk, unreadable, info, w) : w \in MapIter(DOMAIN disk)} :
         /\ vresult' = r.result
         /\ h' = IF r.hashed THEN r.h ELSE h
         /\ digest' = IF r.hashed THEN r.digest ELSE digest
    /\ disk' = [p \in DOMAIN disk \cap Range(info.Files) |-> disk[p]]
    /\ fpc' = "verified"
    /\ UNCHANGED <<resolveVars, removalVars, cliVars, unreadable, info, prevDigest>>

\* VerifyStack(projectDir, instructionsDir, stackID, info)
CallVerifyStack ==
    /\ fpc = "recorded"
    /\ \E r \in {VerifyStack(disk, unreadable, info, w) : w \in MapIter(DOMAIN disk)} :
         /\ vresult' = r.result
         /\ h' = IF r.hashed THEN r.h ELSE h
         /\ digest' = IF r.hashed THEN r.digest ELSE digest
    /\ fpc' = "verified"
    /\ UNCHANGED <<resolveVars, removalVars, cliVars, disk, unreadable, info, prevDigest>>

NextVerify ==
    \/ DownloadFile
    \/ Record
    \/ TamperWrite
    \/ TamperMkdir
    \/ TamperRemove
    \/ TamperChmod
    \/ CallVerifyStack

\* a stack is downloaded and recorded, its directory is changed, and it is
\* verified
SpecVerify == Init /\ [][NextVerify]_vars

\* ------------------------------------------- Resolve as one call
\* The commands of the CLI call Resolve and use what it returns.  Here the
\* same code is written as a function of the catalog and the explicit list.
\* The two loops over Go maps (lines 115 and 128) are run in ascending id
\* order: what Resolve returns does not depend on the order they take.

\* cli.buildStackInfoMap as a function of the registry
StackInfoMap(r) == [id \in DOMAIN r |-> r[id].Depends]

\* resolver.go lines 66-70
FirstMissingIn(cat, ex) ==
    LET bad == {i \in DOMAIN ex : ex[i] \notin DOMAIN cat}
    IN  IF bad = {} THEN NoId
        ELSE ex[CHOOSE i \in bad : \A j \in bad : i <= j]

\* resolver.go lines 98-108
RECURSIVE ScanDependsIn(_, _, _, _, _, _, _)
ScanDependsIn(cat, exSet, current, deps, i, depOf, q) ==
    IF i > Len(deps) THEN [missing |-> NoId, dependencyOf |-> depOf, queue |-> q]
    ELSE LET dep == deps[i] IN
        IF dep \notin DOMAIN cat
        THEN [missing |-> dep, dependencyOf |-> depOf, queue |-> q]
        ELSE ScanDependsIn(cat, exSet, current, deps, i + 1,
                 IF dep \notin exSet /\ MapGet(depOf, dep, NoId) = NoId
                 THEN MapPut(depOf, dep, current) ELSE depOf,
                 Append(q, dep))

\* resolver.go lines 85-109
RECURSIVE BFS(_, _, _, _, _)
BFS(cat, exSet, q, need, depOf) ==
    IF q = <<>> THEN [err |-> NoResult, needed |-> need, dependencyOf |-> depOf]
    ELSE LET current == Head(q) IN
        IF current \in need THEN BFS(cat, exSet, Tail(q), need, depOf)
        ELSE IF current \notin DOMAIN cat
        THEN [err |-> MissingStackError(current), needed |-> need,
              dependencyOf |-> depOf]
        ELSE LET s == ScanDependsIn(cat, exSet, current, cat[current], 1, depOf,
                                    Tail(q))
             IN  IF s.missing # NoId
                 THEN [err |-> MissingDependencyError(current, s.missing),
                       needed |-> need, dependencyOf |-> depOf]
                 ELSE BFS(cat, exSet, s.queue, need \cup {current},
                          s.dependencyOf)

\* resolver.go lines 119-124
RECURSIVE AddEdgesIn(_, _, _, _, _, _)
AddEdgesIn(cat, need, id, i, deg, ad) ==
    IF i > Len(cat[id]) THEN [inDegree |-> deg, adj |-> ad]
    ELSE LET dep == cat[id][i] IN
        IF dep \in need
        THEN AddEdgesIn(cat, need, id, i + 1, [deg EXCEPT ![id] = @ + 1],
                        MapPut(ad, dep, Append(MapGet(ad, dep, <<>>), id)))
        ELSE AddEdgesIn(cat, need, id, i + 1, deg, ad)

\* resolver.go lines 115-125
RECURSIVE BuildGraphIn(_, _, _, _, _, _)
BuildGraphIn(cat, need, ids, k, deg, ad) ==
    IF k > Len(ids) THEN [inDegree |-> deg, adj |-> ad]
    ELSE LET id == ids[k]
             d0 == IF id \in DOMAIN deg THEN deg ELSE MapPut(deg, id, 0)
             g  == AddEdgesIn(cat, need, id, 1, d0, ad)
         IN  BuildGraphIn(cat, need, ids, k + 1, g.inDegree, g.adj)

\* resolver.go lines 137-150
RECURSIVE Kahn(_, _, _, _)
Kahn(ad, deg, q, ord) ==
    IF q = <<>> THEN ord
    ELSE LET sorted == SortStrings(q)
             node == Head(sorted)
             r == Release(MapGet(ad, node, <<>>), 1, deg, Tail(sorted))
         IN  Kahn(ad, r.inDegree, r.queue2, Append(ord, node))

\* resolver.go lines 64-163.  The commands only test the error for nil: the
\* cycle of a CircularDependencyError is not computed here.
Resolve(cat, ex) ==
    IF FirstMissingIn(cat, ex) # NoId
    THEN MissingStackError(FirstMissingIn(cat, ex))
    ELSE LET b == BFS(cat, Range(ex), ex, {}, EmptyMap) IN
        IF b.err # NoResult THEN b.err
        ELSE LET ids == SortStrings(CHOOSE w \in MapIter(b.needed) : TRUE)
                 g   == BuildGraphIn(cat, b.needed, ids, 1, EmptyMap, EmptyMap)
                 ord == Kahn(g.adj, g.inDegree,
                             SortStrings(ZeroInDegree(ids, g.inDegree)), <<>>)
             IN  IF Len(ord) # Cardinality(b.needed)
                 THEN CircularDependencyError(<<>>)
                 ELSE Resolution(ord, Range(ex), b.dependencyOf)

\* resolver.go lines 166-206
ResolveRemoval(cat, cur, rem) ==
    LET res == Resolve(cat, Remaining(cur, rem))
        currentRes == Resolve(cat, cur)
    IN  IF res.kind # "Resolution" \/ currentRes.kind # "Resolution"
        THEN ReturnNil
        ELSE SortStrings(Orphans(res.Order, currentRes.Order, rem))

\* ------------------------------------------------- the CLI commands
\* A project directory with its settings file, its managed directory and
\* its target files, and a registry.  Every stack of the registry has one
\* instruction file, whose content changes with the version of the stack.
StackIds == 1..NumStacks

\* the target files InjectAll writes (injector.ClaudeConfig, AgentsConfig,
\* CursorConfig)
Targets == {"CLAUDE.md", "AGENTS.md", ".cursorrules"}

\* the lists of distinct ids of S, every order, the empty list left out
Selections(S) == UNION {MapIter(T) : T \in SUBSET S \ {{}}}

\* the Depends lists a registry entry for id can carry: the stacks published
\* before it, in ascending order
DependsChoices(id) ==
    {SortStrings(CHOOSE w \in MapIter(T) : TRUE) : T \in SUBSET (1..(id - 1))}

\* manifest.Files of a stack
ManifestFiles == <<1>>

\* what the registry serves for a file of a stack at version v
RegistryFile(v) == [i \in 1..(v - 1) |-> Newline]

\* Manager.DownloadStack: the stack directory is removed and created again,
\* and every file of the manifest is written into it
DownloadStack(v, files) == [p \in Range(files) |-> RegistryFile(v)]

\* the ResolvedStack init, add and sync build after a download (init.go
\* lines 100-121, add.go lines 96-117, sync lines 109-140)
NewResolvedStack(r, res, stackID, d, files) ==
    [Version |-> r[stackID].Version,
     Hash |-> HashDir(d, {}, CHOOSE w \in MapIter(DOMAIN d) : TRUE).digest,
     Files |-> files,
     FileHashes |-> HashFilesInStack(d, files),
     Explicit |-> stackID \in res.Explicit,
     DependencyOf |-> IF stackID \in res.Explicit THEN NoId
                      ELSE MapGet(res.DependencyOf, stackID, NoId)]

\* sync lines 84-91 and remove.go lines 118-124: Explicit and DependencyOf of
\* an installed stack are set from the resolution
Reattribute(rs, res, stackID) ==
    [rs EXCEPT !.Explicit = stackID \in res.Explicit,
               !.DependencyOf = IF stackID \in res.Explicit THEN NoId
                                ELSE MapGet(res.DependencyOf, stackID, NoId)]

\* the StackVerifyInfo made of a ResolvedStack (sync lines 74-78, verify
\* lines 82-86)
VerifyInfo(rs) == [Hash |-> rs.Hash, Files |-> rs.Files, FileHashes |-> rs.FileHashes]

\* filemanager.VerifyStack for the stack id of the managed directory ds
VerifyStackIn(ds, id, inf) ==
    LET d == MapGet(ds, id, EmptyMap)
        r == VerifyStack(d, {}, inf, CHOOSE w \in MapIter(DOMAIN d) : TRUE).result
    IN  [Stack |-> id, OK |-> r.OK, Missing |-> r.Missing, Tampered |-> r.Tampered]

\* filemanager.VerifyAll: the result lists it can return, one for every order
\* in which the loop can visit the map
VerifyAll(ds, infos) ==
    {[i \in DOMAIN w |-> VerifyStackIn(ds, w[i], infos[w[i]])] :
        w \in MapIter(DOMAIN infos)}

\* a command or an edit other than verify ends: nothing VerifyAll returned is
\* kept
Ended(cmd, code) ==
    /\ last' = [cmd |-> cmd, code |-> code, freshness |-> FALSE]
    /\ results' = <<>>

\* the registry or the project is edited: what the last command reported is
\* out of date
Edited ==
    /\ last' = NoCommand
    /\ results' = <<>>

\* verify ends with the results rs of VerifyAll; fetched tells whether it
\* compared the versions with the registry
EndedVerify(code, rs, fetched) ==
    /\ last' = [cmd |-> "verify", code |-> code, freshness |-> fetched]
    /\ results' = rs

\* a stack is published in the registry, before the project is set up
Publish ==
    /\ config = NoConfig
    /\ \E id \in StackIds :
         /\ \A k \in DOMAIN reg : k < id
         /\ \E deps \in DependsChoices(id) :
              reg' = MapPut(reg, id, [Version |-> 1, Depends |-> deps])
    /\ UNCHANGED <<resolveVars, removalVars, fileVars, config, dirs, blocks,
                   last, vs, results>>

\* a new version of a stack is published
Upgrade ==
    /\ config # NoConfig
    /\ \E id \in DOMAIN reg :
         /\ reg[id].Version < Cardinality(FileVersions)
         /\ reg' = [reg EXCEPT ![id].Version = @ + 1]
    /\ Edited
    /\ UNCHANGED <<resolveVars, removalVars, fileVars, config, dirs, blocks,
                   vs>>

\* someone overwrites or deletes an instruction file of an installed stack
Tamper ==
    /\ \E id \in DOMAIN dirs :
       \E p \in Range(ManifestFiles) :
       \E d \in {MapPut(dirs[id], p, data) : data \in FileVersions}
                   \cup {[q \in DOMAIN dirs[id] \ {p} |-> dirs[id][q]]} :
         /\ d # dirs[id]
         /\ dirs' = [dirs EXCEPT ![id] = d]
    /\ Edited
    /\ UNCHANGED <<resolveVars, removalVars, fileVars, reg, config, blocks,
                   vs>>

\* someone deletes the managed block from a target file
StripBlock ==
    /\ blocks = Targets
    /\ \E t \in Targets : blocks' = blocks \ {t}
    /\ Edited
    /\ UNCHANGED <<resolveVars, removalVars, fileVars, reg, config, dirs, vs>>

\* init.go lines 30-150: ai-instructions init <stacks>
runInit ==
    /\ \E stacks0 \in Selections(StackIds) : \E reachable \in BOOLEAN :
         LET res == Resolve(StackInfoMap(reg), stacks0)
             installed == [id \in Range(res.Order) |->
                              DownloadStack(reg[id].Version, ManifestFiles)]
         IN  IF ~reachable
             THEN /\ Ended("init", "Error")
                  /\ UNCHANGED <<config, dirs, blocks>>
             ELSE IF ~(Range(stacks0) \subseteq DOMAIN reg)
             THEN /\ Ended("init", "UsageError")
                  /\ UNCHANGED <<config, dirs, blocks>>
             ELSE IF res.kind # "Resolution"
             THEN /\ Ended("init", "Error")
                  /\ UNCHANGED <<config, dirs, blocks>>
             ELSE /\ dirs' = installed
                  /\ config' =
                       [Version |-> 1, Stacks |-> stacks0,
                        Resolved |-> [id \in Range(res.Order) |->
                            NewResolvedStack(reg, res, id, installed[id],
                                             ManifestFiles)]]
                  /\ blocks' = Targets
                  /\ Ended("init", "Success")
    /\ UNCHANGED <<resolveVars, removalVars, fileVars, reg, vs>>

\* add.go lines 26-139: ai-instructions add <stacks>
runAdd ==
    /\ \E args \in Selections(StackIds) : \E reachable \in BOOLEAN :
         LET newStacks == SelectSeq(args, LAMBDA id : id \notin Range(config.Stacks))
             allExplicit == config.Stacks \o newStacks
             res == Resolve(StackInfoMap(reg), allExplicit)
             fresh == Range(res.Order) \ DOMAIN config.Resolved
             downloaded == [id \in fresh |->
                               DownloadStack(reg[id].Version, ManifestFiles)]
         IN  IF config = NoConfig
             THEN /\ Ended("add", "ConfigError")
                  /\ UNCHANGED <<config, dirs, blocks>>
             ELSE IF ~reachable
             THEN /\ Ended("add", "Error")
                  /\ UNCHANGED <<config, dirs, blocks>>
             ELSE IF ~(Range(args) \subseteq DOMAIN reg)
             THEN /\ Ended("add", "UsageError")
                  /\ UNCHANGED <<config, dirs, blocks>>
             ELSE IF newStacks = <<>>
             THEN /\ Ended("add", "Success")
                  /\ UNCHANGED <<config, dirs, blocks>>
             ELSE IF res.kind # "Resolution"
             THEN /\ Ended("add", "Error")
                  /\ UNCHANGED <<config, dirs, blocks>>
             ELSE /\ dirs' = [id \in DOMAIN dirs \cup fresh |->
                                 IF id \in fresh THEN downloaded[id] ELSE dirs[id]]
                  /\ config' =
                       [config EXCEPT
                          !.Stacks = allExplicit,
                          !.Resolved = [id \in DOMAIN config.Resolved \cup fresh |->
                              IF id \in fresh
                              THEN NewResolvedStack(reg, res, id, downloaded[id],
                                                    ManifestFiles)
                              ELSE config.Resolved[id]]]
                  /\ blocks' = Targets
                  /\ Ended("add", "Success")
    /\ UNCHANGED <<resolveVars, removalVars, fileVars, reg, vs>>

\* the argument lists of remove: the command makes a set of its arguments
\* (remove.go lines 68-71, resolver.go lines 167-170)
Arguments ==
    {SortStrings(CHOOSE w \in MapIter(T) : TRUE) : T \in SUBSET StackIds \ {{}}}

\* remove.go lines 153-159
buildStackInfoFromResolved(cfg) == [id \in DOMAIN cfg.Resolved |-> <<>>]

\* remove.go lines 31-151: ai-instructions remove <stacks>.  cascade is the
\* --auto-remove-orphans flag or the answer to the prompt.
runRemove ==
    /\ \E args \in Arguments : \E reachable \in BOOLEAN : \E cascade \in BOOLEAN :
         LET cat == IF reachable THEN StackInfoMap(reg)
                    ELSE buildStackInfoFromResolved(config)
             orph == ResolveRemoval(cat, config.Stacks, args)
             removeSet == Range(args) \cup (IF cascade THEN Range(orph) ELSE {})
             remaining == SelectSeq(config.Stacks, LAMBDA id : id \notin removeSet)
             kept == [id \in DOMAIN config.Resolved \ removeSet |->
                         config.Resolved[id]]
             res == Resolve(cat, remaining)
             reresolved == remaining # <<>> /\ res.kind = "Resolution"
         IN  IF config = NoConfig
             THEN /\ Ended("remove", "ConfigError")
                  /\ UNCHANGED <<config, dirs, blocks>>
             ELSE IF ~(Range(args) \subseteq Range(config.Stacks))
             THEN /\ Ended("remove", "UsageError")
                  /\ UNCHANGED <<config, dirs, blocks>>
             ELSE /\ dirs' = [id \in DOMAIN dirs \ removeSet |-> dirs[id]]
                  /\ config' =
                       [config EXCEPT
                          !.Stacks = remaining,
                          !.Resolved = [id \in DOMAIN kept |->
                              IF reresolved /\ id \in Range(res.Order)
                              THEN Reattribute(kept[id], res, id)
                              ELSE kept[id]]]
                  /\ blocks' = IF remaining # <<>> /\ ~reresolved
                               THEN blocks ELSE Targets
                  /\ Ended("remove", "Success")
    /\ UNCHANGED <<resolveVars, removalVars, fileVars, reg, vs>>

\* faulty variant of SkipDownload: the local files are not verified
SkipDownloadOnVersion(r, cfg, ds, stackID) ==
    /\ stackID \in DOMAIN cfg.Resolved
    /\ cfg.Resolved[stackID].Version = r[stackID].Version

\* sync lines 69-96: the version matches and the local files are intact
SkipDownload(r, cfg, ds, stackID) ==
    /\ stackID \in DOMAIN cfg.Resolved
    /\ cfg.Resolved[stackID].Version = r[stackID].Version
    /\ VerifyStackIn(ds, stackID, VerifyInfo(cfg.Resolved[stackID])).OK

\* sync lines 27-185: ai-instructions sync.  Every id of res.Order is a key
\* of the registry, for the catalog was built from it (line 63 never skips).
runSync ==
    /\ \E reachable \in BOOLEAN :
         LET res == Resolve(StackInfoMap(reg), config.Stacks)
             ord == Range(res.Order)
             synced == [id \in ord |->
                           IF SkipDownload(reg, config, dirs, id) THEN dirs[id]
                           ELSE DownloadStack(reg[id].Version, ManifestFiles)]
             staleRemoved == DOMAIN dirs \ ord
         IN  IF config = NoConfig
             THEN /\ Ended("sync", "ConfigError")
                  /\ UNCHANGED <<config, dirs, blocks>>
             ELSE IF ~reachable \/ res.kind # "Resolution"
             THEN /\ Ended("sync", "Error")
                  /\ UNCHANGED <<config, dirs, blocks>>
             ELSE /\ dirs' = synced
                  /\ config' =
                       [config EXCEPT
                          !.Resolved =
                             [id \in (DOMAIN config.Resolved \cup ord) \ staleRemoved |->
                                 IF id \notin ord THEN config.Resolved[id]
                                 ELSE IF SkipDownload(reg, config, dirs, id)
                                 THEN Reattribute(config.Resolved[id], res, id)
                                 ELSE NewResolvedStack(reg, res, id, synced[id],
                                                       ManifestFiles)]]
                  /\ blocks' = Targets
                  /\ Ended("sync", "Success")
    /\ UNCHANGED <<resolveVars, removalVars, fileVars, reg, vs>>

\* verify lines 57-67: the installed stacks whose registry version differs
Outdated(r, cfg) ==
    {id \in DOMAIN cfg.Resolved \cap DOMAIN r :
        r[id].Version # cfg.Resolved[id].Version}

\* verify lines 37-114: the issues the command collects, as a set.  fetched
\* tells whether the registry could be read, rs is what VerifyAll returned.
Issues(r, cfg, bl, rs, fetched) ==
    (IF fetched THEN {<<"outdated", id, NoId>> : id \in Outdated(r, cfg)} ELSE {})
    \cup UNION {{<<"missing", rs[i].Stack, f>> : f \in Range(rs[i].Missing)} :
                   i \in {j \in DOMAIN rs : ~rs[j].OK}}
    \cup {<<"missing managed block", t, NoId>> : t \in Targets \ bl}

\* verify lines 30-162: ai-instructions verify [--strict].  registry tells
\* how the registry answers: "ok", "unreachable" (FetchRegistry fails) or
\* "unconfigured" (newRegistryClient fails).
runVerify ==
    /\ \E strict \in BOOLEAN :
       \E registry \in {"ok", "unreachable", "unconfigured"} :
       \E rs \in VerifyAll(dirs, [id \in DOMAIN config.Resolved |->
                                     VerifyInfo(config.Resolved[id])]) :
         IF config = NoConfig
         THEN EndedVerify("ConfigError", <<>>, FALSE)
         ELSE IF strict /\ registry = "unreachable"
         THEN EndedVerify("NetworkError", <<>>, FALSE)
         ELSE IF strict /\ registry = "unconfigured"
         THEN EndedVerify("ConfigError", <<>>, FALSE)
         ELSE EndedVerify(IF Issues(reg, config, blocks, rs, registry = "ok") = {}
                          THEN "Success" ELSE "VerificationFailed",
                          rs, registry = "ok")
    /\ UNCHANGED <<resolveVars, removalVars, fileVars, reg, config, dirs, blocks,
                   vs>>

NextCli ==
    \/ Publish
    \/ Upgrade
    \/ Tamper
    \/ runInit
    \/ runAdd
    \/ runRemove
    \/ runSync

\* a registry is filled, and a project is set up, changed and synchronised
\* while the registry and the files of the project change
SpecCli == Init /\ [][NextCli]_vars

NextVerifyCmd ==
    \/ Publish
    \/ Upgrade
    \/ Tamper
    \/ StripBlock
    \/ runInit
    \/ runVerify

\* a registry is filled, a project is set up, and it is verified while the
\* registry, the files of the project and its target files change
SpecVerifyCmd == Init /\ [][NextVerifyCmd]_vars

\* ------------------------------------- VerifyStack calls side by side
\* Several VerifyStack calls, one per installed stack, run at the same time
\* on the managed directory, which no one changes meanwhile.  A call has its
\* locals (result, dirHash) and moves in three steps: the os.Stat loop, the
\* HashDir call, and the comparison with the scan that follows it.
Running == {id \in DOMAIN vs : vs[id].pc # "done"}

\* part_009 lines 35-36: a call starts for a stack that has none yet
StartVerifyStack ==
    /\ \E id \in DOMAIN config.Resolved \ DOMAIN vs :
         vs' = MapPut(vs, id,
                   [pc |-> "stat",
                    result |-> [Stack |-> id, OK |-> TRUE, Missing |-> <<>>,
                                Tampered |-> <<>>],
                    dirHash |-> NoDigest])
    /\ UNCHANGED <<resolveVars, removalVars, fileVars, reg, config, dirs, blocks,
                   last, results>>

\* part_009 lines 39-50: the declared files are looked up
StatFiles ==
    /\ \E id \in DOMAIN vs :
         /\ vs[id].pc = "stat"
         /\ LET missing == MissingFiles(MapGet(dirs, id, EmptyMap),
                                        config.Resolved[id].Files)
            IN  vs' = [vs EXCEPT
                         ![id].result.Missing = missing,
                         ![id].result.OK = (missing = <<>>),
                         ![id].pc = IF missing = <<>> THEN "hash" ELSE "done"]
    /\ UNCHANGED <<resolveVars, removalVars, fileVars, reg, config, dirs, blocks,
                   last, results>>

\* faulty variant of HashStackDir: dirHash is one variable shared by all calls
HashStackDirShared ==
    /\ \E id \in DOMAIN vs :
         /\ vs[id].pc = "hash"
         /\ \E dir \in {HashDir(dirs[id], {}, w) : w \in MapIter(DOMAIN dirs[id])} :
              vs' = [k \in DOMAIN vs |->
                       IF k = id
                       THEN [vs[k] EXCEPT
                               !.dirHash = dir.digest,
                               !.result.OK = ~dir.digest.err,
                               !.result.Tampered =
                                  IF dir.digest.err
                                  THEN <<TamperedEntry(NoId, "(hash computation failed)")>>
                                  ELSE <<>>,
                               !.pc = IF dir.digest.err THEN "done" ELSE "compare"]
                       ELSE [vs[k] EXCEPT !.dirHash = dir.digest]]
    /\ UNCHANGED <<resolveVars, removalVars, fileVars, reg, config, dirs, blocks,
                   last, results>>

\* part_009 lines 53-58: the directory is hashed
HashStackDir ==
    /\ \E id \in DOMAIN vs :
         /\ vs[id].pc = "hash"
         /\ \E dir \in {HashDir(dirs[id], {}, w) : w \in MapIter(DOMAIN dirs[id])} :
              vs' = [vs EXCEPT
                       ![id].dirHash = dir.digest,
                       ![id].result.OK = ~dir.digest.err,
                       ![id].result.Tampered =
                          IF dir.digest.err
                          THEN <<TamperedEntry(NoId, "(hash computation failed)")>>
                          ELSE <<>>,
                       ![id].pc = IF dir.digest.err THEN "done" ELSE "compare"]
    /\ UNCHANGED <<resolveVars, removalVars, fileVars, reg, config, dirs, blocks,
                   last, results>>

\* part_009 lines 60-92: the hash is compared with info.Hash and, when it
\* differs, the files that changed are looked for
CompareHash ==
    /\ \E id \in DOMAIN vs :
         /\ vs[id].pc = "compare"
         /\ LET inf == VerifyInfo(config.Resolved[id])
                differs == vs[id].dirHash # inf.Hash
            IN  vs' = [vs EXCEPT
                         ![id].result.OK = ~differs,
                         ![id].result.Tampered =
                            IF differs THEN Mismatch(dirs[id], {}, inf) ELSE <<>>,
                         ![id].pc = "done"]
    /\ UNCHANGED <<resolveVars, removalVars, fileVars, reg, config, dirs, blocks,
                   last, results>>

\* filemanager.VerifyAll(projectDir, managedDir, verifyInfos), called when the
\* calls that were started have returned
CallVerifyAll ==
    /\ vs # EmptyMap
    /\ Running = {}
    /\ results = <<>>
    /\ results' \in VerifyAll(dirs, [id \in DOMAIN config.Resolved |->
                                        VerifyInfo(config.Resolved[id])])
    /\ UNCHANGED <<resolveVars, removalVars, fileVars, reg, config, dirs, blocks,
                   last, vs>>

\* the project is set up and its files are changed before any call starts
Setup ==
    /\ vs = EmptyMap
    /\ \/ Publish
       \/ runInit
       \/ Tamper

NextConcurrent ==
    \/ Setup
    \/ StartVerifyStack
    \/ StatFiles
    \/ HashStackDir
    \/ CompareHash
    \/ CallVerifyAll

\* a project is set up, its files are changed, and then its stacks are
\* verified by calls that run side by side
SpecConcurrent == Init /\ [][NextConcurrent]_vars

\* ------------------------------------------------ reference definitions
\* the ids a stack lists as dependencies
DepsOf(n) == Range(Depends(n))

\* S and everything reachable from S over Depends edges
RECURSIVE Closure(_)
Closure(S) ==
    LET T == S \cup UNION {DepsOf(n) : n \in S}
    IN  IF T = S THEN S ELSE Closure(T)

\* the explicit ids plus every id reachable from them
Reachable == Closure(Range(explicit))

\* n lies on a directed cycle
OnCycle(n) == n \in Closure(DepsOf(n))

Done == pc = "done"

Succeeded == Done /\ result.kind = "Resolution"

\* position of id in the sequence s of distinct ids
IndexOf(s, id) == CHOOSE i \in DOMAIN s : s[i] = id

\* breadth-first visiting order from the queue q, visited so far
RECURSIVE VisitOrder(_, _)
VisitOrder(q, visited) ==
    IF q = <<>> THEN visited
    ELSE IF Head(q) \in Range(visited) THEN VisitOrder(Tail(q), visited)
    ELSE VisitOrder(Tail(q) \o Depends(Head(q)), Append(visited, Head(q)))

\* the first stack in breadth-first visiting order whose Depends contains d
FirstRequester(d) ==
    LET v == VisitOrder(explicit, <<>>)
        i == CHOOSE k \in DOMAIN v :
                 /\ d \in DepsOf(v[k])
                 /\ \A j \in DOMAIN v : d \in DepsOf(v[j]) => k <= j
    IN  v[i]

\* the five bytes "path:", which no line of HashDir writes
PathPrefix == NumPaths + 3

\* for each file of S in ascending name order: the header made of prefix, the
\* name and a line feed, then the bytes of the file
RECURSIVE StreamOf(_, _, _)
StreamOf(prefix, d, S) ==
    IF S = {} THEN <<>>
    ELSE LET p == CHOOSE x \in S : \A y \in S : x <= y
         IN  <<prefix, p, Newline>> \o d[p] \o StreamOf(prefix, d, S \ {p})

\* the directories of readable files that hold at most MaxBytes bytes
FileSets ==
    {d \in UNION {[S -> ByteStrings(MaxBytes)] : S \in SUBSET Paths} :
        Size(d, DOMAIN d) <= MaxBytes}

\* the directories that differ from d in the bytes of exactly the file p
OtherBytes(d, p) ==
    {[d EXCEPT ![p] = c] :
        c \in ByteStrings(MaxBytes - Size(d, DOMAIN d \ {p})) \ {d[p]}}

Hashed == fpc \in {"hashed", "rehashed"}

Verified == fpc = "verified"

\* the declared files that are not in the stack directory
AbsentDeclared == {f \in Range(info.Files) : f \notin DOMAIN disk}

\* the content hash over all files that are in the stack directory; an error
\* when one of them cannot be read
ContentHash ==
    IF unreadable # {} THEN HashError
    ELSE Sha256(StreamOf(FilePrefix, disk, DOMAIN disk))

\* VerifyStack got past the existence check and found the directory hash
\* different from the expected one
HashMismatch ==
    /\ Verified
    /\ AbsentDeclared = {}
    /\ ~ContentHash.err
    /\ ContentHash # info.Hash

\* the declared files whose bytes no longer have the recorded hash or that
\* cannot be read
ChangedDeclared ==
    {f \in Range(info.Files) \cap DOMAIN info.FileHashes :
        f \in unreadable \/ Sha256(disk[f]) # info.FileHashes[f]}

\* -------------------------------------------------------------- claims
\* C1: in a successful Resolve, whenever a and b are both in Order and b is
\* listed in a's Depends, b stands at a strictly smaller index than a.
C1_TopologicalOrder ==
    Succeeded =>
        \A i, j \in DOMAIN result.Order :
            result.Order[j] \in DepsOf(result.Order[i]) => j < i

\* a chain of three stacks whose install order is the reverse of the id order
C1_Witness ==
    /\ Succeeded
    /\ result.Order = <<3, 2, 1>>
    /\ 3 \in DepsOf(2)
    /\ 2 \in DepsOf(1)

\* C2: in a successful Resolve, the ids of Order are exactly the explicit ids
\* plus everything reachable from them, each exactly once, duplicates in the
\* explicit list or in a Depends list notwithstanding.
C2_OrderIsClosureOnce ==
    Succeeded =>
        /\ Range(result.Order) = Reachable
        /\ \A i, j \in DOMAIN result.Order :
               result.Order[i] = result.Order[j] => i = j

\* duplicate explicit ids and a duplicate Depends entry
C2_Witness ==
    /\ Succeeded
    /\ Len(explicit) = 2
    /\ explicit[1] = explicit[2]
    /\ \E n \in Reachable :
           /\ Len(Depends(n)) = 2
           /\ Depends(n)[1] = Depends(n)[2]
    /\ Len(result.Order) = 2

\* C3: in a successful Resolve, Order[i] is the smallest id among the needed
\* ids that are not in Order[1..i-1] and whose dependencies all are.
C3_SmallestReadyFirst ==
    Succeeded =>
        \A i \in DOMAIN result.Order :
            LET emitted == {result.Order[k] : k \in 1..(i - 1)}
                ready == {n \in Reachable \ emitted : DepsOf(n) \subseteq emitted}
            IN  /\ result.Order[i] \in ready
                /\ \A n \in ready : result.Order[i] <= n

\* id 1 becomes ready only after 2 is emitted, while 3 waits in the queue
C3_Witness ==
    /\ Succeeded
    /\ result.Order = <<2, 1, 3>>

\* C4: a second Resolve with the same catalog and explicit list returns what
\* the first one returned, whatever order the maps are ranged over.
C4_Deterministic ==
    (Done /\ calls > 1) => result = prev

\* a second call done on a graph where one stack has two dependents, so that
\* the order of adj depends on the map iteration order
C4_Witness ==
    /\ Succeeded
    /\ calls > 1
    /\ \E d \in DOMAIN adj : Len(adj[d]) = 2 /\ adj[d][1] > adj[d][2]

\* C5: when every explicit id and every reachable dependency is in the
\* catalog, Resolve fails with CircularDependencyError exactly when some
\* needed stack lies on a cycle; cycles elsewhere in the catalog do not count.
C5_CircularIffCycle ==
    (Done /\ Reachable \subseteq DOMAIN stacks) =>
        (result.kind = "CircularDependencyError" <=> \E n \in Reachable : OnCycle(n))

\* a successful Resolve on a catalog with a cycle outside the needed set
C5_Witness ==
    /\ Succeeded
    /\ result.Order # <<>>
    /\ \E m \in (DOMAIN stacks) \ Reachable : OnCycle(m)

\* C6: the Cycle of a CircularDependencyError has at least two elements,
\* starts and ends with the same id, lies in the needed set, follows Depends
\* edges, and repeats no id but the first/last one.
C6_CycleWellFormed ==
    (Done /\ result.kind = "CircularDependencyError") =>
        LET c == result.Cycle IN
        /\ Len(c) >= 2
        /\ c[1] = c[Len(c)]
        /\ Range(c) \subseteq Reachable
        /\ \A i \in 1..(Len(c) - 1) : c[i + 1] \in DepsOf(c[i])
        /\ \A i, j \in 1..(Len(c) - 1) : c[i] = c[j] => i = j

\* a cycle of two stacks that the search enters from a stack outside it
C6_Witness ==
    /\ Done
    /\ result.kind = "CircularDependencyError"
    /\ Len(result.Cycle) = 3
    /\ Reachable \ Range(result.Cycle) # {}
    /\ \A n \in Reachable \ Range(result.Cycle) : n < result.Cycle[1]

\* C7: if an explicit id is absent from the catalog, Resolve fails with
\* MissingStackError for the first such id in list order and returns no
\* Resolution.
C7_FirstMissingStack ==
    (Done /\ ~(Range(explicit) \subseteq DOMAIN stacks)) =>
        \E i \in DOMAIN explicit :
            /\ explicit[i] \notin DOMAIN stacks
            /\ \A j \in 1..(i - 1) : explicit[j] \in DOMAIN stacks
            /\ result = MissingStackError(explicit[i])

\* two unknown explicit ids, the first in list order not the smallest
C7_Witness ==
    /\ Done
    /\ Len(explicit) = 2
    /\ explicit[1] > explicit[2]
    /\ Range(explicit) \cap DOMAIN stacks = {}
    /\ result.kind = "MissingStackError"

\* C8: if all explicit ids exist but a reachable stack lists a dependency
\* absent from the catalog, Resolve fails with MissingDependencyError{s, d},
\* s a reachable catalog stack, d in s's Depends and not in the catalog, and
\* returns no Resolution.
C8_MissingDependency ==
    (Done /\ Range(explicit) \subseteq DOMAIN stacks
          /\ ~(Reachable \subseteq DOMAIN stacks)) =>
        /\ result.kind = "MissingDependencyError"
        /\ result.Stack \in Reachable \cap DOMAIN stacks
        /\ result.Dependency \in DepsOf(result.Stack)
        /\ result.Dependency \notin DOMAIN stacks
        /\ result = MissingDependencyError(result.Stack, result.Dependency)

\* the unknown dependency is listed by a transitive dependency
C8_Witness ==
    /\ Done
    /\ result.kind = "MissingDependencyError"
    /\ result.Stack \notin Range(explicit)
    /\ result.Stack # result.Dependency

\* C9: in a successful Resolution, the keys of DependencyOf are exactly the
\* ids of Order that are not in Explicit, and each value is an id of Order
\* whose Depends contains the key.
C9_DependencyOfKeys ==
    Succeeded =>
        /\ DOMAIN result.DependencyOf = Range(result.Order) \ result.Explicit
        /\ \A d \in DOMAIN result.DependencyOf :
               /\ result.DependencyOf[d] \in Range(result.Order)
               /\ d \in DepsOf(result.DependencyOf[d])

\* an explicit stack that another stack depends on, next to a transitive one
C9_Witness ==
    /\ Succeeded
    /\ DOMAIN result.DependencyOf # {}
    /\ \E e \in result.Explicit : \E n \in Reachable : e \in DepsOf(n)

\* C10: DependencyOf[d] is the first stack, in breadth-first visiting order
\* from the explicit ids, whose Depends contains d; later requesters do not
\* overwrite it.
C10_FirstDiscoveryWins ==
    Succeeded =>
        \A d \in DOMAIN result.DependencyOf :
            result.DependencyOf[d] = FirstRequester(d)

\* explicit [2, 1], both depending on 3: the attribution is 2
C10_Witness ==
    /\ Succeeded
    /\ explicit = <<2, 1>>
    /\ 3 \in DepsOf(1)
    /\ 3 \in DepsOf(2)
    /\ result.DependencyOf[3] = 2

\* C11 as stated: in a successful Resolution, for each transitive dependency d,
\* DependencyOf[d] is one of the explicit stacks.
C11_AttributionIsExplicit ==
    Succeeded =>
        \A d \in DOMAIN result.DependencyOf :
            result.DependencyOf[d] \in result.Explicit

\* C11 amended: in a successful Resolution, for each transitive dependency d,
\* DependencyOf[d] is one of the explicit stacks exactly when some explicit
\* stack lists d in its Depends; otherwise DependencyOf[d] is itself a
\* transitive dependency.
C11_ExplicitIffDirect ==
    Succeeded =>
        \A d \in DOMAIN result.DependencyOf :
            /\ result.DependencyOf[d] \in result.Explicit
                   <=> \E e \in result.Explicit : d \in DepsOf(e)
            /\ result.DependencyOf[d] \notin result.Explicit
                   => result.DependencyOf[d] \in DOMAIN result.DependencyOf

\* explicit [1], 1 depends on 2, 2 depends on 3: DependencyOf[3] is 2, which
\* is not explicit, and DependencyOf[2] is the explicit 1
C11_Witness ==
    /\ Succeeded
    /\ explicit = <<1>>
    /\ Depends(1) = <<2>>
    /\ Depends(2) = <<3>>
    /\ result.DependencyOf[3] = 2
    /\ result.DependencyOf[2] = 1

\* C14: Resolve terminates on every finite catalog and explicit list: a call
\* that has started returns, whether the breadth-first traversal, the
\* ready-queue loop or the cycle search is what it ends in.
C14_Termination == (pc = "validate") ~> (pc = "done")

\* a call that went through the traversal, the ready-queue loop and the cycle
\* search over a cycle of three stacks, and returned
C14_Witness ==
    /\ Done
    /\ result.kind = "CircularDependencyError"
    /\ Len(result.Cycle) = 4
    /\ order = <<>>

\* C15: HashDir is order-independent: two calls on directories holding the
\* same paths with the same bytes return the same digest, in whatever order
\* the files are enumerated.
C15_OrderIndependent ==
    fpc = "rehashed" => digest = prevDigest

\* two files were hashed twice
C15_Witness ==
    /\ fpc = "rehashed"
    /\ DOMAIN disk = {1, 2}
    /\ ~digest.err
    /\ digest = prevDigest

\* C16 as stated: the bytes HashDir feeds to the hash function are, for each
\* path in ascending order, "path:" + path + "\n" followed by the bytes of the
\* file, and nothing else.
C16_StreamWithPathPrefix ==
    Hashed => h = StreamOf(PathPrefix, disk, DOMAIN disk)

\* C16 amended: the bytes HashDir feeds to the hash function are, for each
\* path in ascending order, "file:" + path + "\n" followed by the bytes of the
\* file, and nothing else.
C16_StreamWithFilePrefix ==
    Hashed => h = StreamOf(FilePrefix, disk, DOMAIN disk)

\* two files, the second one not empty, were fed to the hash function
C16_Witness ==
    /\ Hashed
    /\ DOMAIN disk = {1, 2}
    /\ disk[2] # <<>>
    /\ Len(h) = 6 + Len(disk[1]) + Len(disk[2])

\* C17: any file set that differs from the hashed one in its set of paths or
\* in the bytes of a file makes HashDir feed a different byte stream to the
\* hash function.
C17_StreamsDiffer ==
    Hashed =>
        \A other \in FileSets :
            other # disk =>
                \A w \in MapIter(DOMAIN other) : HashDir(other, {}, w).h # h

\* C18: a directory with the same paths and the same bytes in every file but
\* one, whose bytes differ, gets a different digest from HashDir.
C18_ContentSensitive ==
    Hashed =>
        \A p \in DOMAIN disk :
            \A other \in OtherBytes(disk, p) :
                \A w \in MapIter(DOMAIN other) :
                    HashDir(other, {}, w).digest # digest

\* two files were hashed, and the first one can hold other bytes that contain
\* a header
C18_Witness ==
    /\ Hashed
    /\ DOMAIN disk = {1, 2}
    /\ disk[1] = <<>>
    /\ \E other \in OtherBytes(disk, 1) : other[1] = <<FilePrefix, 2, Newline>>

\* C19: if at least one declared file is absent from the stack directory,
\* VerifyStack returns OK = false, Missing equal to the absent declared files
\* in declared order and Tampered empty, and computes no hash, even when
\* present files were modified or the expected hash is wrong.
C19_MissingShortCircuits ==
    (Verified /\ AbsentDeclared # {}) =>
        /\ vresult.OK = FALSE
        /\ vresult.Missing = SelectSeq(info.Files, LAMBDA f : f \in AbsentDeclared)
        /\ vresult.Tampered = <<>>
        /\ h = <<>>
        /\ digest = NoDigest

\* files [2, 1] declared with their hashes, 1 deleted and 2 overwritten
C19_Witness ==
    /\ Verified
    /\ info.Files = <<2, 1>>
    /\ DOMAIN info.FileHashes = {1, 2}
    /\ DOMAIN disk = {2}
    /\ HashFile(disk, unreadable, 2) # info.FileHashes[2]
    /\ vresult.Missing = <<1>>

\* C20: VerifyStack returns OK = true if and only if every declared file
\* exists and the content hash over all files on disk equals the expected
\* hash; when OK = true, Missing and Tampered are empty.
C20_OkIffAllPresentAndHashMatches ==
    Verified =>
        /\ vresult.OK <=> (AbsentDeclared = {} /\ ContentHash = info.Hash)
        /\ vresult.OK => (vresult.Missing = <<>> /\ vresult.Tampered = <<>>)

\* one file declared, a second file on disk that was there at the recording:
\* the hash over both files matches
C20_Witness ==
    /\ Verified
    /\ info.Files = <<1>>
    /\ DOMAIN disk = {1, 2}
    /\ vresult.OK

\* C12: when Resolve succeeds on the remaining explicit stacks and on
\* currentExplicit, ResolveRemoval returns exactly the ids that are in the
\* Order of currentExplicit, not in the Order of remaining and not in
\* removing, in ascending order and without duplicates.
C12_OrphansExact ==
    (rpc = "returned" /\ calls > 1 /\ result.kind = "Resolution") =>
        /\ Range(orphans) =
               (Range(result.Order) \ Range(prev.Order)) \ Range(removing)
        /\ Range(result.Order) = Closure(Range(currentExplicit))
        /\ Range(prev.Order) = Closure(Range(Remaining(currentExplicit, removing)))
        /\ \A i, j \in DOMAIN orphans : i < j => orphans[i] < orphans[j]

\* the only explicit stack 3 is removed, 3 depends on 1 and 1 on 2: nothing
\* remains, Order is [2, 1, 3] and the orphans are [1, 2]
C12_Witness ==
    /\ rpc = "returned"
    /\ currentExplicit = <<3>>
    /\ removing = <<3>>
    /\ prev.kind = "Resolution"
    /\ prev.Order = <<>>
    /\ result.Order = <<2, 1, 3>>
    /\ orphans = <<1, 2>>

\* C13: ResolveRemoval returns a list of ids and never an error; when Resolve
\* fails on remaining or on currentExplicit the list is empty.
C13_NoErrorEmptyOrphans ==
    rpc = "returned" =>
        /\ orphans \in Seq(Ids)
        /\ result.kind # "Resolution" => orphans = <<>>

\* Resolve succeeded on remaining [1] and failed on currentExplicit [1, 2]
\* because 2 depends on itself
C13_Witness ==
    /\ rpc = "returned"
    /\ currentExplicit = <<1, 2>>
    /\ removing = <<2>>
    /\ prev.kind = "Resolution"
    /\ result.kind = "CircularDependencyError"
    /\ orphans = <<>>

\* C29: no id returned by ResolveRemoval is a member of currentExplicit; every
\* orphan is a transitive dependency of the resolution of currentExplicit.
C29_OrphansNotExplicit ==
    rpc = "returned" =>
        \A o \in Range(orphans) :
            /\ o \notin Range(currentExplicit)
            /\ o \in DOMAIN result.DependencyOf
            /\ o \in Closure(Range(currentExplicit))

\* explicit [1, 3], 3 is removed and depends on 2: 2 is the orphan, the
\* explicit 1 is kept
C29_Witness ==
    /\ rpc = "returned"
    /\ currentExplicit = <<1, 3>>
    /\ removing = <<3>>
    /\ Depends(3) = <<2>>
    /\ orphans = <<2>>

\* a stack reachable from the explicit ids lists a dependency that is not in
\* the catalog
MissingDependency ==
    \E n \in Reachable \cap DOMAIN stacks : ~(DepsOf(n) \subseteq DOMAIN stacks)

\* C30: the failures have a fixed priority.  An unknown explicit id gives
\* MissingStackError even if a reachable dependency is missing or there is a
\* cycle; otherwise a missing reachable dependency gives
\* MissingDependencyError even if there is a cycle; CircularDependencyError is
\* returned only when nothing is missing.
C30_ErrorPriority ==
    Done =>
        /\ ~(Range(explicit) \subseteq DOMAIN stacks)
               => result.kind = "MissingStackError"
        /\ (Range(explicit) \subseteq DOMAIN stacks /\ MissingDependency)
               => result.kind = "MissingDependencyError"
        /\ result.kind = "CircularDependencyError"
               => (Range(explicit) \subseteq DOMAIN stacks /\ ~MissingDependency)

\* explicit [1, 3]: 1 depends on itself and on the unknown 2, 3 is unknown;
\* all three failures apply and MissingStackError for 3 is returned
C30_Witness ==
    /\ Done
    /\ explicit = <<1, 3>>
    /\ Depends(1) = <<1, 2>>
    /\ DOMAIN stacks = {1}
    /\ OnCycle(1)
    /\ MissingDependency
    /\ result = MissingStackError(3)

\* C21: when all declared files exist, the directory hash differs from the
\* expected hash and per-file hashes were recorded, Tampered has an entry for
\* each declared file whose hash differs from the recorded one or that cannot
\* be read, an entry marked unexpected for each file in the stack directory
\* that is not declared, and no entry for a declared file whose content still
\* matches.
C21_TamperedLocalized ==
    (HashMismatch /\ DOMAIN info.FileHashes # {}) =>
        Range(vresult.Tampered) =
            {TamperedEntry(f, "") : f \in ChangedDeclared}
            \cup {TamperedEntry(p, "(unexpected)") :
                     p \in DOMAIN disk \ Range(info.Files)}

\* C22: whenever VerifyStack returns OK = false while every declared file
\* exists, Tampered is not empty.
C22_FailureIsReported ==
    (Verified /\ AbsentDeclared = {} /\ ~vresult.OK) => vresult.Tampered # <<>>

\* C23: VerifyStack leaves the filesystem as it found it: whatever the outcome
\* (ok, missing files, tampered files, a hash that cannot be computed), the
\* step that runs it creates, modifies and deletes no file, and changes no
\* permission.  VerifyAll is a loop of such calls and nothing else.
C23_ReadOnly ==
    [][(fpc = "recorded" /\ fpc' = "verified") =>
           (disk' = disk /\ unreadable' = unreadable)]_vars

\* a verification that found an undeclared file and reported it
C23_Witness ==
    /\ fpc = "verified"
    /\ ~vresult.OK
    /\ DOMAIN disk \ Range(info.Files) # {}
    /\ \E p \in DOMAIN disk \ Range(info.Files) :
          TamperedEntry(p, "(unexpected)") \in Range(vresult.Tampered)

\* the stacks the explicit list of the project needs, by the registry
NeededNow == Resolve(StackInfoMap(reg), config.Stacks)

\* the installed stack id verifies against its persisted state
VerifiesOK(id) ==
    /\ id \in DOMAIN config.Resolved
    /\ VerifyStackIn(dirs, id, VerifyInfo(config.Resolved[id])).OK

SucceededCmd(cmd) == last.cmd = cmd /\ last.code = "Success"

\* C24: verify ends with VerificationFailed (exit code 1) whenever a resolved
\* stack is outdated against the registry, a VerifyStack result is not OK
\* (files missing or tampered), or a target file lacks the managed block, and
\* with success (exit code 0) only when none of these holds.  Stated for the
\* runs that reach the verdict, with the freshness counted when the registry
\* could be read.
C24_VerifyExitCode ==
    (last.cmd = "verify" /\ last.code \in {"Success", "VerificationFailed"}) =>
        (last.code = "VerificationFailed" <=>
            \/ last.freshness /\ Outdated(reg, config) # {}
            \/ \E id \in DOMAIN config.Resolved : ~VerifiesOK(id)
            \/ blocks # Targets)

\* C26: after a sync that succeeds, every stack of the resolution order has a
\* persisted state at the version of the registry, holds the files the
\* registry serves at that version, and verifies OK against its persisted
\* state: a stack that was new, outdated or failed verification has been
\* downloaded and hashed again.
C26_SyncLeavesVerified ==
    SucceededCmd("sync") =>
        /\ NeededNow.kind = "Resolution"
        /\ \A id \in Range(NeededNow.Order) :
             /\ VerifiesOK(id)
             /\ config.Resolved[id].Version = reg[id].Version
             /\ dirs[id] = DownloadStack(reg[id].Version, ManifestFiles)

\* a sync has brought an installed dependency to the second version
C26_Witness ==
    /\ SucceededCmd("sync")
    /\ \E id \in DOMAIN config.Resolved :
         /\ config.Resolved[id].Version > 1
         /\ ~config.Resolved[id].Explicit
         /\ VerifiesOK(id)

\* C27: after a remove that succeeds, with or without its orphans, every
\* stack the remaining explicit list needs still has its persisted state and
\* its directory.
C27_RemoveKeepsNeeded ==
    (SucceededCmd("remove") /\ NeededNow.kind = "Resolution") =>
        \A id \in Range(NeededNow.Order) :
            id \in DOMAIN config.Resolved /\ id \in DOMAIN dirs

\* C28: after init, add, remove or sync succeeds, a persisted stack state is
\* explicit exactly when its id is in the explicit list of the project, and
\* it names a requester only when it is not explicit.
C28_ExplicitMatchesList ==
    (last.code = "Success" /\ last.cmd \in {"init", "add", "remove", "sync"}) =>
        \A id \in DOMAIN config.Resolved :
            /\ config.Resolved[id].Explicit <=> id \in Range(config.Stacks)
            /\ config.Resolved[id].DependencyOf # NoId =>
                   ~config.Resolved[id].Explicit

\* C25: VerifyStack calls for distinct stacks can run side by side: however
\* their steps interleave over a managed directory that no one changes, a
\* call that has returned holds the result the call gives when it runs alone,
\* and VerifyAll returns exactly one result for every stack it was given.
C25_CallsIndependent ==
    /\ \A id \in DOMAIN vs :
         vs[id].pc = "done" =>
             vs[id].result =
                 VerifyStackIn(dirs, id, VerifyInfo(config.Resolved[id]))
    /\ results # <<>> =>
         /\ Len(results) = Cardinality(DOMAIN config.Resolved)
         /\ {results[i].Stack : i \in DOMAIN results} = DOMAIN config.Resolved

\* two calls have returned, one with OK and one without, and VerifyAll has
\* returned both results
C25_Witness ==
    /\ \E a \in DOMAIN vs : \E b \in DOMAIN vs :
         /\ vs[a].pc = "done" /\ vs[b].pc = "done"
         /\ vs[a].result.OK /\ ~vs[b].result.OK
    /\ Len(results) > 1

====
